---- MODULE Spec2Model ----
(***************************************************************************)
(* Streaming upload of an HTTP source into an S3-compatible bucket, as     *)
(* implemented by services/v1/s3/upload.py (stream_upload_to_s3) and       *)
(* services/v1/gcs/upload.py (stream_upload_to_gcs).                       *)
(*                                                                         *)
(* Text is a sequence of one-character strings.  Sizes are counted in      *)
(* blocks of 1 MiB; the source body of n blocks is the sequence 1..n, so   *)
(* that every block carries its own offset as content.                     *)
(***************************************************************************)
EXTENDS Integers, Sequences, FiniteSets, TLC

(***************************************************************************)
(* Bounds of the model.                                                    *)
(***************************************************************************)
MaxBody == 12
MaxChunk == 6
MaxEmpty == 1

(***************************************************************************)
(* Program constants.                                                      *)
(***************************************************************************)
\* chunk_size_for_s3_part / chunk_size_for_gcs_part = 5 * 1024 * 1024, in MiB
PartSize == 5
\* ExpiresIn=3600 of generate_presigned_url
ExpiresIn == 3600

Invocations == {1, 2}
Providers == {"s3", "gcs"}

\* Python's None, as a text value that is not a text
None == <<"None">>
\* a local variable that is not bound yet ('upload_id' in locals() is false)
Unbound == <<"unbound">>

(***************************************************************************)
(* Text helpers.                                                           *)
(***************************************************************************)
\* s.find(c): the first index of c in s, 0 when absent
Find(s, c) ==
    IF \E k \in 1..Len(s) : s[k] = c
    THEN CHOOSE k \in 1..Len(s) : s[k] = c /\ \A j \in 1..(k-1) : s[j] # c
    ELSE 0

\* the first index >= from of c in s, 0 when absent
FindFrom(s, c, from) ==
    IF \E k \in from..Len(s) : s[k] = c
    THEN CHOOSE k \in from..Len(s) : s[k] = c /\ \A j \in from..(k-1) : s[j] # c
    ELSE 0

\* s.rfind(c): the last index of c in s, 0 when absent
RFind(s, c) ==
    IF \E k \in 1..Len(s) : s[k] = c
    THEN CHOOSE k \in 1..Len(s) : s[k] = c /\ \A j \in (k+1)..Len(s) : s[j] # c
    ELSE 0

\* s[from:] with 1-based from
From(s, from) == SubSeq(s, from, Len(s))
\* s[:upto] with 1-based inclusive upto
UpTo(s, upto) == SubSeq(s, 1, upto)

Letters == {"a", "b", "c", "d", "e", "f", "g", "h", "k", "n", "p", "r", "s",
            "t", "u", "x", "y", "z", "A", "B", "C", "D", "E", "F", "P"}
Digits == {"0", "1", "2", "3", "4", "5", "6", "7", "8", "9"}
HexDigits == Digits \cup {"a", "b", "c", "d", "e", "f", "A", "B", "C", "D", "E", "F"}

HexVal(c) ==
    CASE c = "0" -> 0 [] c = "1" -> 1 [] c = "2" -> 2 [] c = "3" -> 3
      [] c = "4" -> 4 [] c = "5" -> 5 [] c = "6" -> 6 [] c = "7" -> 7
      [] c = "8" -> 8 [] c = "9" -> 9
      [] c \in {"a", "A"} -> 10 [] c \in {"b", "B"} -> 11
      [] c \in {"c", "C"} -> 12 [] c \in {"d", "D"} -> 13
      [] c \in {"e", "E"} -> 14 [] c \in {"f", "F"} -> 15

\* the character of a byte value; characters outside the table are decoded
\* to the replacement character
Chr(code) ==
    CASE code = 32 -> " " [] code = 35 -> "#" [] code = 37 -> "%"
      [] code = 46 -> "." [] code = 47 -> "/" [] code = 59 -> ";"
      [] code = 63 -> "?" [] code = 65 -> "A" [] code = 97 -> "a"
      [] OTHER -> "<U+FFFD>"

\* urllib.parse.unquote: every %XX with two hex digits is replaced by the
\* character it encodes, everything else is kept
RECURSIVE unquote(_)
unquote(s) ==
    IF s = << >> THEN << >>
    ELSE IF /\ s[1] = "%" /\ Len(s) >= 3
            /\ s[2] \in HexDigits /\ s[3] \in HexDigits
         THEN <<Chr(16 * HexVal(s[2]) + HexVal(s[3]))>> \o unquote(From(s, 4))
         ELSE <<s[1]>> \o unquote(Tail(s))

\* urllib.parse.quote(s) with the default safe='/': letters, digits and
\* "_.-~/" are kept, every other character becomes %XX (upper-case hex)
QuoteChar(c) ==
    IF c \in Letters \cup Digits \cup {"_", ".", "-", "~", "/"} THEN <<c>>
    ELSE CASE c = " " -> <<"%", "2", "0">>
           [] c = "#" -> <<"%", "2", "3">>
           [] c = "%" -> <<"%", "2", "5">>
           [] c = ";" -> <<"%", "3", "B">>
           [] c = "?" -> <<"%", "3", "F">>
           [] c = ":" -> <<"%", "3", "A">>
           [] OTHER -> <<"%", "E", "F">>

RECURSIVE quote(_)
quote(s) == IF s = << >> THEN << >> ELSE QuoteChar(s[1]) \o quote(Tail(s))

\* str.rstrip('/')
RECURSIVE rstrip_slash(_)
rstrip_slash(s) ==
    IF s # << >> /\ s[Len(s)] = "/" THEN rstrip_slash(UpTo(s, Len(s) - 1)) ELSE s

\* os.path.basename: what follows the last '/'
basename(p) == From(p, RFind(p, "/") + 1)

(***************************************************************************)
(* urllib.parse.urlparse(url).path                                         *)
(***************************************************************************)
SchemeChars == Letters \cup Digits \cup {"+", "-", "."}

\* the length of the scheme prefix "scheme:" (0 when the URL has none)
SchemeLen(url) ==
    LET i == Find(url, ":")
    IN  IF /\ i > 1
           /\ url[1] \in Letters
           /\ \A k \in 1..(i-1) : url[k] \in SchemeChars
        THEN i ELSE 0

\* the index of the first of "/?#" at or after from, Len+1 when none
NetlocEnd(s, from) ==
    IF \E k \in from..Len(s) : s[k] \in {"/", "?", "#"}
    THEN CHOOSE k \in from..Len(s) :
            /\ s[k] \in {"/", "?", "#"}
            /\ \A j \in from..(k-1) : s[j] \notin {"/", "?", "#"}
    ELSE Len(s) + 1

HasNetloc(s) == Len(s) >= 2 /\ s[1] = "/" /\ s[2] = "/"

Netloc(s) == IF HasNetloc(s) THEN SubSeq(s, 3, NetlocEnd(s, 3) - 1) ELSE << >>

\* urlsplit raises ValueError("Invalid IPv6 URL") on an unbalanced bracket
UrlParseRaises(url) ==
    LET rest == From(url, SchemeLen(url) + 1)
        nl == Netloc(rest)
    IN  (Find(nl, "[") > 0) # (Find(nl, "]") > 0)

\* _splitparams: the parameters of the last path segment are cut off
SplitParams(p) ==
    LET i == IF Find(p, "/") > 0 THEN FindFrom(p, ";", RFind(p, "/"))
                                   ELSE Find(p, ";")
    IN  IF i = 0 THEN p ELSE UpTo(p, i - 1)

\* uses_params holds '', 'http', 'https' (and schemes no URL here has)
UsesParams(scheme) ==
    scheme \in {<< >>, <<"h", "t", "t", "p">>, <<"h", "t", "t", "p", "s">>}

\* (each stage is bound to its value once, by {... : x \in {stage}}, before the
\* next stage reads it)
urlparse_path(url) ==
    LET scheme == IF SchemeLen(url) = 0 THEN << >> ELSE UpTo(url, SchemeLen(url) - 1)
        AfterNetloc(rest) ==
            IF HasNetloc(rest) THEN From(rest, NetlocEnd(rest, 3)) ELSE rest
        NoFragment(s) ==
            IF Find(s, "#") = 0 THEN s ELSE UpTo(s, Find(s, "#") - 1)
        NoQuery(s) ==
            IF Find(s, "?") = 0 THEN s ELSE UpTo(s, Find(s, "?") - 1)
        NoParams(s) ==
            IF UsesParams(scheme) /\ Find(s, ";") > 0 THEN SplitParams(s) ELSE s
    IN  CHOOSE path \in
            { NoParams(noQuery) : noQuery \in
                { NoQuery(noFrag) : noFrag \in
                    { NoFragment(afterNetloc) : afterNetloc \in
                        { AfterNetloc(rest) : rest \in
                            { From(url, SchemeLen(url) + 1) } } } } } : TRUE

(***************************************************************************)
(* Inputs: URLs, names, the environment.                                   *)
(***************************************************************************)
\* http://e/d/r.P?x=1
UrlReport ==
    <<"h", "t", "t", "p", ":", "/", "/", "e", "/", "d", "/", "r", ".", "P", "?", "x", "=", "1">>
\* http://e/d/
UrlDir == <<"h", "t", "t", "p", ":", "/", "/", "e", "/", "d", "/">>
\* a caller-supplied name with a character that quote() escapes
CustomName == <<"c", " ", "n">>

\* the (file_url, custom_filename) pairs of the requests
Requests ==
    { [file_url |-> u[1], custom_filename |-> u[2], make_public |-> m] :
        u \in {<<UrlReport, None>>, <<UrlDir, None>>, <<UrlReport, CustomName>>},
        m \in BOOLEAN }

\* 'https://storage.googleapis.com', the default of GCS_ENDPOINT_URL and
\* GCS_PUBLIC_URL_BASE
GcsDefaultUrl == <<"h", "t", "t", "p", "s", ":", "/", "/", "g">>

EnvVars == {"S3_BUCKET_NAME", "S3_ENDPOINT_URL", "S3_ACCESS_KEY", "S3_SECRET_KEY",
            "GCS_BUCKET_NAME", "GCS_ENDPOINT_URL", "GCS_ACCESS_KEY",
            "GCS_SECRET_KEY", "GCS_PUBLIC_URL_BASE"}

VarsOf(p) ==
    IF p = "s3"
    THEN {"S3_BUCKET_NAME", "S3_ENDPOINT_URL", "S3_ACCESS_KEY", "S3_SECRET_KEY"}
    ELSE {"GCS_BUCKET_NAME", "GCS_ENDPOINT_URL", "GCS_ACCESS_KEY", "GCS_SECRET_KEY",
          "GCS_PUBLIC_URL_BASE"}

\* an environment with every variable set (None: the variable is not set)
FullEnv ==
    [v \in EnvVars |->
        CASE v = "S3_BUCKET_NAME" -> <<"b">>
          [] v = "S3_ENDPOINT_URL" -> <<"h", "t", "t", "p", ":", "/", "/", "s", "/">>
          [] v = "GCS_BUCKET_NAME" -> <<"c">>
          [] v = "GCS_ENDPOINT_URL" -> <<"h", "t", "t", "p", ":", "/", "/", "g">>
          [] v = "GCS_PUBLIC_URL_BASE" -> <<"h", "t", "t", "p", ":", "/", "/", "p", "/">>
          [] OTHER -> <<"k">>]

\* the environments: all set, or one variable of the providers in use
\* not set or set to the empty text
Environments(ps) ==
    {FullEnv} \cup
    { [FullEnv EXCEPT ![v] = x] :
        v \in UNION {VarsOf(p) : p \in ps}, x \in {None, << >>} }

\* Python truthiness of an optional text
Truthy(x) == x # None /\ x # << >> /\ x # Unbound

(***************************************************************************)
(* State.                                                                  *)
(***************************************************************************)
VARIABLES
    env,             \* os.environ
    uuid_count,      \* how many uuid4() values were drawn
    next_upload_id,  \* the object store's next UploadId
    calls,           \* per invocation: the collaborator calls it issued, in order
    provider,        \* per invocation: "s3" or "gcs"
    request,         \* per invocation: file_url, custom_filename, make_public
    source,          \* per invocation: the size of the body at file_url
    pos,             \* per invocation: the blocks iter_content has delivered
    empties,         \* per invocation: the empty chunks delivered
    pc,              \* per invocation: where the call stands
    bucket_name, public_base, filename, upload_id,     \* locals
    buffer, parts, part_number, make_public, exc,      \* locals
    result,          \* per invocation: the returned dict
    raised           \* per invocation: the exception that reached the caller

globals == <<env, uuid_count, next_upload_id, calls>>
inputs == <<provider, request, source>>
stream == <<pos, empties>>
config == <<bucket_name, public_base, filename>>
accum == <<buffer, parts, part_number>>
vars == <<env, uuid_count, next_upload_id, calls, provider, request, source,
          pos, empties, pc, bucket_name, public_base, filename, upload_id,
          buffer, parts, part_number, make_public, exc, result, raised>>

NoError == [cls |-> "none", op |-> "none", n |-> 0]
NoResult == [file_url |-> None]

\* the exceptions: ValueError of a missing setting, requests' RequestException,
\* boto3's Boto3Error, botocore's ClientError (no subclass of Boto3Error)
Error(cls, op, n) == [cls |-> cls, op |-> op, n |-> n]
StoreErrors == {"Boto3Error", "ClientError"}

\* the blocks of the body at file_url: the sources of two invocations
\* differ in every block
Body(i) == [k \in 1..source[i] |-> 100 * (i - 1) + k]

\* the integrity tag the store assigns to a part: a hash of its content
ETagOf(data) == <<"md5">> \o data

UploadId(n) == <<"upload", n>>

\* uuid4() as text: the n-th value drawn
Uuid(n) == <<"u", "-">> \o <<CHOOSE d \in Digits : HexVal(d) = n % 10>>

\* faulty variant: the store calls take the URL as the key, not the resolved
\* filename
Call_UrlKey(i, op, arg, ret, ok) ==
    [inv |-> i, op |-> op, bucket |-> bucket_name[i], key |-> request[i].file_url,
     upload_id |-> upload_id[i], arg |-> arg,
     ret |-> IF ok THEN [value |-> ret] ELSE ret, ok |-> ok]

\* ret: what the call returned (as the record [value |-> ...]), or the
\* exception it raised
Call(i, op, arg, ret, ok) ==
    [inv |-> i, op |-> op, bucket |-> bucket_name[i], key |-> filename[i],
     upload_id |-> upload_id[i], arg |-> arg,
     ret |-> IF ok THEN [value |-> ret] ELSE ret, ok |-> ok]

(***************************************************************************)
(* Configuration: the checks of stream_upload_to_* and get_*_client.       *)
(***************************************************************************)
\* os.getenv(name, default)
getenv(e, name, default) == IF e[name] = None THEN default ELSE e[name]

BucketVar(p) == IF p = "s3" THEN "S3_BUCKET_NAME" ELSE "GCS_BUCKET_NAME"

\* the endpoint_url get_*_client sees
ClientEndpoint(p, e) ==
    IF p = "s3" THEN e["S3_ENDPOINT_URL"]
    ELSE getenv(e, "GCS_ENDPOINT_URL", GcsDefaultUrl)

\* faulty variant: get_s3_client does not check the secret key
get_s3_client_NoSecretCheck(e) ==
    IF ~Truthy(e["S3_ENDPOINT_URL"]) THEN "S3_ENDPOINT_URL"
    ELSE IF ~Truthy(e["S3_ACCESS_KEY"]) THEN "S3_ACCESS_KEY"
    ELSE ""

\* the setting whose check raises ValueError in get_s3_client, in the order
\* of the checks; "" when every check passes
get_s3_client(e) ==
    IF ~Truthy(ClientEndpoint("s3", e)) THEN "S3_ENDPOINT_URL"
    ELSE IF ~Truthy(e["S3_ACCESS_KEY"]) THEN "S3_ACCESS_KEY"
    ELSE IF ~Truthy(e["S3_SECRET_KEY"]) THEN "S3_SECRET_KEY"
    ELSE ""

\* the same for get_gcs_client
get_gcs_client(e) ==
    IF ~Truthy(e["GCS_ACCESS_KEY"]) THEN "GCS_ACCESS_KEY"
    ELSE IF ~Truthy(e["GCS_SECRET_KEY"]) THEN "GCS_SECRET_KEY"
    ELSE IF ~Truthy(ClientEndpoint("gcs", e)) THEN "GCS_ENDPOINT_URL"
    ELSE ""

\* the setting whose check fails first in stream_upload_to_*, "" when none
ConfigFailure(p, e) ==
    IF ~Truthy(e[BucketVar(p)]) THEN BucketVar(p)
    ELSE IF p = "s3" THEN get_s3_client(e) ELSE get_gcs_client(e)

\* the base of the public URL: endpoint_url (s3), gcs_public_base_url (gcs)
PublicBase(p, e) ==
    IF p = "s3" THEN e["S3_ENDPOINT_URL"]
    ELSE getenv(e, "GCS_PUBLIC_URL_BASE", GcsDefaultUrl)

(***************************************************************************)
(* get_filename_from_url                                                   *)
(***************************************************************************)
\* os.path.basename(unquote(urlparse(url).path)), each stage bound to its value
PathName(url) ==
    CHOOSE name \in
        { basename(decoded) : decoded \in
            { unquote(path) : path \in {urlparse_path(url)} } } : TRUE

\* the name parsed from the URL, empty when the parse raises
ParsedName(url) == IF UrlParseRaises(url) THEN << >> ELSE PathName(url)

\* s3: the parsed name, or the uuid when it is empty
get_filename_from_url_s3(url, uuid) ==
    IF ParsedName(url) # << >> THEN ParsedName(url) ELSE uuid

\* faulty variant: the extension is looked for in the last directory of a path
\* that ends in '/'
get_filename_from_url_gcs_DirExtension(url, uuid) ==
    IF ParsedName(url) # << >> THEN ParsedName(url)
    ELSE IF UrlParseRaises(url) THEN uuid
    ELSE LET original_filename == basename(rstrip_slash(unquote(urlparse_path(url))))
             dot == RFind(original_filename, ".")
             extension == From(original_filename, dot + 1)
         IN  IF dot > 0 /\ Len(extension) < 10
             THEN uuid \o <<".">> \o extension ELSE uuid

\* gcs: as s3, and the uuid gets the extension of the parsed name when that
\* name has a dot and the extension is shorter than 10 characters
get_filename_from_url_gcs(url, uuid) ==
    IF ParsedName(url) # << >> THEN ParsedName(url)
    ELSE IF UrlParseRaises(url) THEN uuid
    ELSE LET original_filename == PathName(url)
             dot == RFind(original_filename, ".")
             extension == From(original_filename, dot + 1)
         IN  IF dot > 0 /\ Len(extension) < 10
             THEN uuid \o <<".">> \o extension ELSE uuid

get_filename_from_url(p, url, uuid) ==
    IF p = "s3" THEN get_filename_from_url_s3(url, uuid)
    ELSE get_filename_from_url_gcs(url, uuid)

\* the object key: the custom name when one is given, else from the URL
ResolveFilename(p, req, uuid) ==
    IF Truthy(req.custom_filename) THEN req.custom_filename
    ELSE get_filename_from_url(p, req.file_url, uuid)

\* whether resolving the name draws a uuid
DrawsUuid(req) == ~Truthy(req.custom_filename) /\ ParsedName(req.file_url) = << >>

(***************************************************************************)
(* The except clauses of stream_upload_to_*.                               *)
(***************************************************************************)
\* the client local is bound by the step that binds filename
ClientBound(i) == filename[i] # Unbound

\* faulty variant: the Boto3Error clause attempts the abort without looking
\* for upload_id
AbortGuardBoto3_Always(i) == TRUE
\* except boto3.exceptions.Boto3Error: the guard of the abort attempt
AbortGuardBoto3(i) ==
    IF provider[i] = "s3" THEN Truthy(upload_id[i])
    ELSE Truthy(upload_id[i]) /\ ClientBound(i)

\* faulty variant: the generic clause never attempts the abort
AbortGuardGeneric_Never(i) == FALSE
\* except Exception: the guard of the abort attempt
AbortGuardGeneric(i) ==
    IF provider[i] = "s3"
    THEN /\ ClientBound(i) /\ bucket_name[i] # Unbound /\ filename[i] # Unbound
         /\ Truthy(upload_id[i])
    ELSE /\ ClientBound(i) /\ Truthy(bucket_name[i]) /\ Truthy(filename[i])
         /\ Truthy(upload_id[i])

\* whether the except clause that catches e attempts abort_multipart_upload:
\* RequestException is logged and re-raised, the two other clauses abort
\* under their guards
AbortAttempted(i, e) ==
    CASE e.cls = "RequestException" -> FALSE
      [] e.cls = "Boto3Error" -> AbortGuardBoto3(i)
      [] OTHER -> AbortGuardGeneric(i)

\* faulty variant: a failed abort attempt replaces the exception that is raised
Reraised_AbortError(caught, abort_error) ==
    IF abort_error.cls # "none" THEN abort_error ELSE caught
\* faulty variant: the clause ends without raising
Reraised_Nothing(caught, abort_error) == [cls |-> "none", op |-> "none", n |-> 0]
\* what the bare raise after the abort attempt raises: the exception the
\* clause caught, whatever the abort attempt did
Reraised(caught, abort_error) == caught

\* faulty variant: a failed read of the body is swallowed and the loop goes on
Throw_ReadRetried(i, e) ==
    /\ exc' = [exc EXCEPT ![i] = e]
    /\ IF e.op = "read"
       THEN /\ UNCHANGED <<pc, raised>>
       ELSE IF AbortAttempted(i, e)
            THEN /\ pc' = [pc EXCEPT ![i] = "abort"]
                 /\ UNCHANGED raised
            ELSE /\ pc' = [pc EXCEPT ![i] = "raised"]
                 /\ raised' = [raised EXCEPT ![i] = e]

\* an exception e leaves the try block of invocation i
Throw(i, e) ==
    /\ exc' = [exc EXCEPT ![i] = e]
    /\ IF AbortAttempted(i, e)
       THEN /\ pc' = [pc EXCEPT ![i] = "abort"]
            /\ UNCHANGED raised
       ELSE /\ pc' = [pc EXCEPT ![i] = "raised"]
            /\ raised' = [raised EXCEPT ![i] = e]

\* pc moves on, nothing is raised
Goto(i, to) ==
    /\ pc' = [pc EXCEPT ![i] = to]
    /\ UNCHANGED <<exc, raised>>

Log(c) == calls' = [calls EXCEPT ![c.inv] = Append(@, c)]

(***************************************************************************)
(* Steps of stream_upload_to_s3 / stream_upload_to_gcs.                    *)
(***************************************************************************)
\* the configuration checks, the client, the object key
Configure(i) ==
    /\ pc[i] = "start"
    /\ LET p == provider[i]
           bad == ConfigFailure(p, env)
       IN  /\ bucket_name' = [bucket_name EXCEPT ![i] = env[BucketVar(p)]]
           /\ IF bad = BucketVar(p)
              THEN /\ Throw(i, Error("ValueError", bad, 0))
                   /\ UNCHANGED <<public_base, filename, uuid_count>>
              ELSE /\ public_base' = [public_base EXCEPT ![i] = PublicBase(p, env)]
                   /\ IF bad # ""
                      THEN /\ Throw(i, Error("ValueError", bad, 0))
                           /\ UNCHANGED <<filename, uuid_count>>
                      ELSE /\ filename' = [filename EXCEPT ![i] =
                                  ResolveFilename(p, request[i], Uuid(uuid_count + 1))]
                           /\ uuid_count' = IF DrawsUuid(request[i])
                                            THEN uuid_count + 1 ELSE uuid_count
                           /\ Goto(i, "create")
    /\ UNCHANGED <<env, next_upload_id, calls, inputs, stream, upload_id, accum,
                   make_public, result>>

\* create_multipart_upload(Bucket, Key) and upload_id = ...['UploadId']
CreateMultipartUpload(i) ==
    /\ pc[i] = "create"
    /\ \E outcome \in {"ok"} \cup StoreErrors :
         IF outcome = "ok"
         THEN /\ upload_id' = [upload_id EXCEPT ![i] = UploadId(next_upload_id)]
              /\ next_upload_id' = next_upload_id + 1
              /\ Log(Call(i, "create_multipart_upload", << >>,
                          UploadId(next_upload_id), TRUE))
              /\ Goto(i, "get")
         ELSE /\ Log(Call(i, "create_multipart_upload", << >>, Error(outcome, "create_multipart_upload", 0), FALSE))
              /\ Throw(i, Error(outcome, "create_multipart_upload", 0))
              /\ UNCHANGED <<upload_id, next_upload_id>>
    /\ UNCHANGED <<env, uuid_count, inputs, stream, config, accum, make_public,
                   result>>

\* requests.get(file_url, stream=True, timeout=...), raise_for_status(), and
\* parts = [], part_number = 1, buffer = bytearray()
HttpGet(i) ==
    /\ pc[i] = "get"
    /\ \E outcome \in {"ok", "get", "raise_for_status"} :
         IF outcome = "ok"
         THEN /\ Log(Call(i, "get", << >>, << >>, TRUE))
              /\ parts' = [parts EXCEPT ![i] = << >>]
              /\ part_number' = [part_number EXCEPT ![i] = 1]
              /\ buffer' = [buffer EXCEPT ![i] = << >>]
              /\ Goto(i, "read")
         ELSE /\ Log(Call(i, "get", << >>, Error("RequestException", outcome, 0), FALSE))
              /\ Throw(i, Error("RequestException", outcome, 0))
              /\ UNCHANGED accum
    /\ UNCHANGED <<env, uuid_count, next_upload_id, inputs, stream, config,
                   upload_id, make_public, result>>

\* while len(buffer) >= chunk_size_for_s3_part
\* faulty variant: a buffer of exactly one part is not drained
DrainNeeded_MoreThanPart(buf) == Len(buf) > PartSize

DrainNeeded(buf) == Len(buf) >= PartSize
\* faulty variant: the whole buffer is sent as the part
CurrentPart_WholeBuffer(buf) == buf
\* current_part_data = buffer[:chunk_size_for_s3_part]
CurrentPart(buf) == SubSeq(buf, 1, PartSize)
\* buffer = buffer[chunk_size_for_s3_part:]
\* faulty variant: the slice after a part starts one block late
Remainder_DropsOne(buf) == SubSeq(buf, PartSize + 2, Len(buf))

\* faulty variant: the part is not removed from the buffer
Remainder_KeepsAll(buf) == buf

Remainder(buf) == SubSeq(buf, PartSize + 1, Len(buf))
\* if buffer: the final part
\* faulty variant: what is left in the buffer at the end is not uploaded
FinalPartNeeded_Never(buf) == FALSE

FinalPartNeeded(buf) == buf # << >>
\* faulty variant: the part number is not advanced
NextPartNumber_Stuck(n) == n
\* part_number += 1
NextPartNumber(n) == n + 1
\* parts.append({'PartNumber': part_number, 'ETag': part['ETag']})
PartRecord(n, etag) == [PartNumber |-> n, ETag |-> etag]

Min(a, b) == IF a < b THEN a ELSE b

\* faulty variant: the buffer is one module-level object, every invocation's
\* buffer receives the chunk
ReadChunk_SharedBuffer(i) ==
    /\ pc[i] = "read"
    /\ \E c \in 1..(IF MaxChunk < source[i] - pos[i] THEN MaxChunk ELSE source[i] - pos[i]) :
         LET chunk == SubSeq(Body(i), pos[i] + 1, pos[i] + c)
         IN  /\ pos' = [pos EXCEPT ![i] = pos[i] + c]
             /\ buffer' = [j \in Invocations |-> buffer[j] \o chunk]
             /\ Goto(i, IF DrainNeeded(buffer[i] \o chunk) THEN "drain" ELSE "read")
    /\ UNCHANGED <<globals, inputs, empties, config, upload_id, parts, part_number,
                   make_public, result>>

\* iter_content delivers a non-empty chunk: buffer.extend(http_chunk)
ReadChunk(i) ==
    /\ pc[i] = "read"
    /\ \E c \in 1..Min(MaxChunk, source[i] - pos[i]) :
         LET grown == buffer[i] \o SubSeq(Body(i), pos[i] + 1, pos[i] + c)
         IN  /\ pos' = [pos EXCEPT ![i] = pos[i] + c]
             /\ buffer' = [buffer EXCEPT ![i] = grown]
             /\ Goto(i, IF DrainNeeded(grown) THEN "drain" ELSE "read")
    /\ UNCHANGED <<globals, inputs, empties, config, upload_id, parts, part_number,
                   make_public, result>>

\* iter_content delivers an empty chunk: `if http_chunk` filters it out
ReadEmptyChunk(i) ==
    /\ pc[i] = "read"
    /\ empties[i] < MaxEmpty
    /\ empties' = [empties EXCEPT ![i] = empties[i] + 1]
    /\ Goto(i, IF DrainNeeded(buffer[i]) THEN "drain" ELSE "read")
    /\ UNCHANGED <<globals, inputs, pos, config, upload_id, accum, make_public,
                   result>>

\* iter_content is exhausted: the for loop ends
EndOfStream(i) ==
    /\ pc[i] = "read"
    /\ pos[i] = source[i]
    /\ Goto(i, IF FinalPartNeeded(buffer[i]) THEN "final" ELSE "complete")
    /\ UNCHANGED <<globals, inputs, stream, config, upload_id, accum, make_public,
                   result>>

\* iter_content raises (ChunkedEncodingError, ConnectionError, ...)
ReadFails(i) ==
    /\ pc[i] = "read"
    /\ Log(Call(i, "read", << >>, Error("RequestException", "read", 0), FALSE))
    /\ Throw(i, Error("RequestException", "read", 0))
    /\ UNCHANGED <<env, uuid_count, next_upload_id, inputs, stream, config,
                   upload_id, accum, make_public, result>>

\* the body of the while loop: slice one part off the buffer and upload it
UploadPart(i) ==
    /\ pc[i] = "drain"
    /\ LET data == CurrentPart(buffer[i])
           rest == Remainder(buffer[i])
           arg == [PartNumber |-> part_number[i], Body |-> data]
       IN  /\ buffer' = [buffer EXCEPT ![i] = rest]
           /\ \E outcome \in {"ok"} \cup StoreErrors :
                IF outcome = "ok"
                THEN /\ Log(Call(i, "upload_part", arg, ETagOf(data), TRUE))
                     /\ parts' = [parts EXCEPT ![i] =
                            Append(@, PartRecord(part_number[i], ETagOf(data)))]
                     /\ part_number' = [part_number EXCEPT ![i] = NextPartNumber(@)]
                     /\ Goto(i, IF DrainNeeded(rest) THEN "drain" ELSE "read")
                ELSE /\ Log(Call(i, "upload_part", arg, Error(outcome, "upload_part", part_number[i]), FALSE))
                     /\ Throw(i, Error(outcome, "upload_part", part_number[i]))
                     /\ UNCHANGED <<parts, part_number>>
    /\ UNCHANGED <<env, uuid_count, next_upload_id, inputs, stream, config,
                   upload_id, make_public, result>>

\* what is left in the buffer after the stream ended is the final part
UploadFinalPart(i) ==
    /\ pc[i] = "final"
    /\ LET data == buffer[i]
           arg == [PartNumber |-> part_number[i], Body |-> data]
       IN  \E outcome \in {"ok"} \cup StoreErrors :
                IF outcome = "ok"
                THEN /\ Log(Call(i, "upload_part", arg, ETagOf(data), TRUE))
                     /\ parts' = [parts EXCEPT ![i] =
                            Append(@, PartRecord(part_number[i], ETagOf(data)))]
                     /\ Goto(i, "complete")
                ELSE /\ Log(Call(i, "upload_part", arg, Error(outcome, "upload_part", part_number[i]), FALSE))
                     /\ Throw(i, Error(outcome, "upload_part", part_number[i]))
                     /\ UNCHANGED parts
    /\ UNCHANGED <<env, uuid_count, next_upload_id, inputs, stream, config,
                   upload_id, buffer, part_number, make_public, result>>

\* complete_multipart_upload(Bucket, Key, UploadId, MultipartUpload={'Parts': parts})
CompleteMultipartUpload(i) ==
    /\ pc[i] = "complete"
    /\ \E outcome \in {"ok"} \cup StoreErrors :
         IF outcome = "ok"
         THEN /\ Log(Call(i, "complete_multipart_upload", parts[i], << >>, TRUE))
              /\ Goto(i, IF make_public[i] THEN "acl" ELSE "presign")
         ELSE /\ Log(Call(i, "complete_multipart_upload", parts[i], Error(outcome, "complete_multipart_upload", 0), FALSE))
              /\ Throw(i, Error(outcome, "complete_multipart_upload", 0))
    /\ UNCHANGED <<env, uuid_count, next_upload_id, inputs, stream, config,
                   upload_id, accum, make_public, result>>

\* faulty variant: the object key is put into the public URL as it is
PublicUrl_Unquoted(base, bucket, key) ==
    [kind |-> "public",
     text |-> rstrip_slash(base) \o <<"/">> \o bucket \o <<"/">> \o key]

\* f"{base.rstrip('/')}/{bucket_name}/{quote(filename)}"
PublicUrl(base, bucket, key) ==
    [kind |-> "public",
     text |-> rstrip_slash(base) \o <<"/">> \o bucket \o <<"/">> \o quote(key)]

\* generate_presigned_url('get_object', Params={'Bucket', 'Key'}, ExpiresIn=ttl)
PresignedUrl(bucket, key, ttl) ==
    [kind |-> "presigned", bucket |-> bucket, key |-> key, ExpiresIn |-> ttl]

\* the returned dict; gcs adds 'storage_provider': 'GCS'
UploadResult(p, url, key, bucket, public) ==
    IF p = "s3"
    THEN [file_url |-> url, filename |-> key, bucket |-> bucket, public |-> public]
    ELSE [file_url |-> url, filename |-> key, bucket |-> bucket, public |-> public,
          storage_provider |-> "GCS"]

\* faulty variant: make_public is not reset after a failed put_object_acl
PublicAfterAclFailure_Kept(requested) == requested
\* make_public after the except clause of a failed put_object_acl
PublicAfterAclFailure(requested) == FALSE

\* put_object_acl(ACL='public-read', Bucket, Key) under `if make_public`
PutObjectAcl(i) ==
    /\ pc[i] = "acl"
    /\ \E outcome \in {"ok"} \cup StoreErrors :
         IF outcome = "ok"
         THEN /\ Log(Call(i, "put_object_acl", << >>, << >>, TRUE))
              /\ result' = [result EXCEPT ![i] =
                     UploadResult(provider[i],
                                  PublicUrl(public_base[i], bucket_name[i], filename[i]),
                                  filename[i], bucket_name[i], make_public[i])]
              /\ Goto(i, "returned")
         ELSE \* except Exception as e_acl: fall back to a presigned URL
              /\ Log(Call(i, "put_object_acl", << >>, Error(outcome, "put_object_acl", 0), FALSE))
              /\ Goto(i, "presign_fallback")
              /\ UNCHANGED result
    /\ UNCHANGED <<env, uuid_count, next_upload_id, inputs, stream, config,
                   upload_id, accum, make_public>>

\* generate_presigned_url, in the else branch or in the ACL fallback
GeneratePresignedUrl(i) ==
    /\ pc[i] \in {"presign", "presign_fallback"}
    /\ \E outcome \in {"ok"} \cup StoreErrors :
         IF outcome = "ok"
         THEN LET url == PresignedUrl(bucket_name[i], filename[i], ExpiresIn)
                  public == IF pc[i] = "presign_fallback"
                            THEN PublicAfterAclFailure(make_public[i])
                            ELSE make_public[i]
              IN  /\ Log(Call(i, "generate_presigned_url", ExpiresIn, url, TRUE))
                  /\ make_public' = [make_public EXCEPT ![i] = public]
                  /\ result' = [result EXCEPT ![i] =
                         UploadResult(provider[i], url, filename[i], bucket_name[i],
                                      public)]
                  /\ Goto(i, "returned")
         ELSE /\ Log(Call(i, "generate_presigned_url", ExpiresIn, Error(outcome, "generate_presigned_url", 0), FALSE))
              /\ Throw(i, Error(outcome, "generate_presigned_url", 0))
              /\ UNCHANGED <<make_public, result>>
    /\ UNCHANGED <<env, uuid_count, next_upload_id, inputs, stream, config,
                   upload_id, accum>>

\* the abort attempt of an except clause, then the bare raise
AbortMultipartUpload(i) ==
    /\ pc[i] = "abort"
    /\ \E outcome \in {"ok"} \cup StoreErrors :
         LET abort_error == IF outcome = "ok" THEN NoError
                            ELSE Error(outcome, "abort_multipart_upload", 0)
         IN  /\ Log(Call(i, "abort_multipart_upload", << >>, abort_error,
                         outcome = "ok"))
             /\ raised' = [raised EXCEPT ![i] = Reraised(exc[i], abort_error)]
    /\ pc' = [pc EXCEPT ![i] = "raised"]
    /\ UNCHANGED <<env, uuid_count, next_upload_id, inputs, stream, config,
                   upload_id, accum, make_public, exc, result>>

(***************************************************************************)
(* Specification: one invocation runs, the other one is never started.     *)
(***************************************************************************)
Idle == [file_url |-> UrlReport, custom_filename |-> None, make_public |-> FALSE]

InitLocals ==
    /\ uuid_count = 0
    /\ next_upload_id = 1
    /\ calls = [i \in Invocations |-> << >>]
    /\ pos = [i \in Invocations |-> 0]
    /\ empties = [i \in Invocations |-> 0]
    /\ bucket_name = [i \in Invocations |-> Unbound]
    /\ public_base = [i \in Invocations |-> Unbound]
    /\ filename = [i \in Invocations |-> Unbound]
    /\ upload_id = [i \in Invocations |-> Unbound]
    /\ buffer = [i \in Invocations |-> << >>]
    /\ parts = [i \in Invocations |-> << >>]
    /\ part_number = [i \in Invocations |-> 1]
    /\ make_public = [i \in Invocations |-> request[i].make_public]
    /\ exc = [i \in Invocations |-> NoError]
    /\ result = [i \in Invocations |-> NoResult]
    /\ raised = [i \in Invocations |-> NoError]

Init ==
    /\ \E p \in Providers :
         /\ provider = [i \in Invocations |-> p]
         /\ env \in Environments({p})
    /\ \E r \in Requests : request = [i \in Invocations |-> IF i = 1 THEN r ELSE Idle]
    /\ \E n \in 0..MaxBody : source = [i \in Invocations |-> IF i = 1 THEN n ELSE 0]
    /\ pc = [i \in Invocations |-> IF i = 1 THEN "start" ELSE "idle"]
    /\ InitLocals

Step(i) ==
    \/ Configure(i)
    \/ CreateMultipartUpload(i)
    \/ HttpGet(i)
    \/ ReadChunk(i)
    \/ ReadEmptyChunk(i)
    \/ EndOfStream(i)
    \/ ReadFails(i)
    \/ UploadPart(i)
    \/ UploadFinalPart(i)
    \/ CompleteMultipartUpload(i)
    \/ PutObjectAcl(i)
    \/ GeneratePresignedUrl(i)
    \/ AbortMultipartUpload(i)

Next == \E i \in Invocations : Step(i)

Spec == Init /\ [][Next]_vars

\* the thread of an invocation keeps running and every collaborator call
\* returns or raises: a step that can be taken is taken
SpecFair == Spec /\ WF_vars(Next)

(***************************************************************************)
(* Specification: two invocations with distinct object keys run at the     *)
(* same time, their steps interleaved at every collaborator call.          *)
(***************************************************************************)
\* the two requests: a name taken from the URL, a name given by the caller
RequestPair ==
    <<[file_url |-> UrlReport, custom_filename |-> None, make_public |-> TRUE],
      [file_url |-> UrlReport, custom_filename |-> CustomName, make_public |-> FALSE]>>

\* the sizes of a body: a final part only, a full part and a final part
BodySizes == {1, PartSize + 1}

InitConcurrent ==
    /\ \E ps \in {<<"s3", "s3">>, <<"s3", "gcs">>} :
         provider = [i \in Invocations |-> ps[i]]
    /\ env = FullEnv
    /\ request = [i \in Invocations |-> RequestPair[i]]
    /\ source \in [Invocations -> BodySizes]
    /\ pc = [i \in Invocations |-> "start"]
    /\ InitLocals

SpecConcurrent == InitConcurrent /\ [][Next]_vars

(***************************************************************************)
(* Specification: one invocation, its URL drawn from URLs whose last path  *)
(* segment is not empty.                                                   *)
(***************************************************************************)
\* last path segments: plain, with an escaped space, with an escaped slash
\* inside and at the end, with an escaped letter, with a malformed escape,
\* with a ';'
Segments ==
    { <<"r", ".", "P">>,
      <<"a", "%", "2", "0", "b">>,
      <<"a", "%", "2", "F", "b">>,
      <<"a", "%", "2", "f">>,
      <<"%", "4", "1">>,
      <<"a", "%", "z">>,
      <<"a", ";", "b">> }

\* what precedes the last segment, and what follows the path
Stems == { <<"h", "t", "t", "p", ":", "/", "/", "e", "/">>,
           <<"h", "t", "t", "p", ":", "/", "/", "e", "/", "d", "/">> }
Tails == { << >>, <<"?", "x", "=", "/", "y">>, <<"#", "f", "/", "g">> }

SegmentUrls == { st \o sg \o tl : st \in Stems, sg \in Segments, tl \in Tails }

InitNames ==
    /\ \E p \in Providers : provider = [i \in Invocations |-> p]
    /\ env = FullEnv
    /\ \E u \in SegmentUrls, c \in {None, << >>, CustomName} :
         request = [i \in Invocations |->
                       IF i = 1
                       THEN [file_url |-> u, custom_filename |-> c, make_public |-> TRUE]
                       ELSE Idle]
    /\ source = [i \in Invocations |-> IF i = 1 THEN PartSize + 1 ELSE 0]
    /\ pc = [i \in Invocations |-> IF i = 1 THEN "start" ELSE "idle"]
    /\ InitLocals

SpecNames == InitNames /\ [][Next]_vars

(***************************************************************************)
(* Specification: two invocations without a custom name; the URL of the    *)
(* first is drawn from URLs whose path has no last segment, from a URL     *)
(* urlparse rejects and from a URL with a last segment; the URL of the     *)
(* second has no last segment.                                             *)
(***************************************************************************)
\* http://e
UrlNoPath == <<"h", "t", "t", "p", ":", "/", "/", "e">>
\* http://e/d.x/
UrlDottedDir == <<"h", "t", "t", "p", ":", "/", "/", "e", "/", "d", ".", "x", "/">>
\* http://[e/x
UrlBadBracket == <<"h", "t", "t", "p", ":", "/", "/", "[", "e", "/", "x">>
\* http://e/a%2f
UrlEscapedSlashEnd == <<"h", "t", "t", "p", ":", "/", "/", "e", "/", "a", "%", "2", "f">>

FreshUrls == {UrlDir, UrlNoPath, UrlDottedDir, UrlBadBracket, UrlEscapedSlashEnd, UrlReport}

InitFresh ==
    /\ \E p \in Providers : provider = [i \in Invocations |-> p]
    /\ env = FullEnv
    /\ \E u \in FreshUrls :
         request = [i \in Invocations |->
                       [file_url |-> IF i = 1 THEN u ELSE UrlDir,
                        custom_filename |-> IF i = 1 THEN << >> ELSE None,
                        make_public |-> i = 1]]
    /\ source = [i \in Invocations |-> IF i = 1 THEN PartSize + 1 ELSE 0]
    /\ pc = [i \in Invocations |-> "start"]
    /\ InitLocals

SpecFresh == InitFresh /\ [][Next]_vars

(***************************************************************************)
(* Reading the call log.                                                   *)
(***************************************************************************)
Running == {i \in Invocations : pc[i] # "idle"}

\* the positions in the log of the calls of invocation i to one of ops
Idx(i, ops) == {k \in 1..Len(calls[i]) : calls[i][k].op \in ops}

\* the upload_part calls of invocation i, in the order they were issued
UploadCalls(i) ==
    SelectSeq(calls[i], LAMBDA c : c.op = "upload_part")

\* the failed calls of invocation i to one of ops
FailedIdx(i, ops) == {k \in Idx(i, ops) : ~calls[i][k].ok}
OkIdx(i, ops) == {k \in Idx(i, ops) : calls[i][k].ok}

Aborts(i) == Idx(i, {"abort_multipart_upload"})

\* the positions in the log of all calls of invocation i
CallsBy(i) == 1..Len(calls[i])

(***************************************************************************)
(* C1: a successful invocation on a body of k*PartSize + r blocks has      *)
(* issued k+1 upload_part calls if r > 0 and k if r = 0; the last part has *)
(* r blocks (PartSize when r = 0) and every other part has PartSize        *)
(* blocks, whatever the chunks the body was delivered in.                  *)
(***************************************************************************)
C1_PartSizes ==
    \A i \in Running :
        pc[i] = "returned" =>
            LET k == source[i] \div PartSize
                r == source[i] % PartSize
                n == IF r > 0 THEN k + 1 ELSE k
                U == UploadCalls(i)
            IN  /\ Len(U) = n
                /\ \A j \in 1..n :
                      Len(U[j].arg.Body) =
                          IF j < n \/ r = 0 THEN PartSize ELSE r

\* a body of 2 full parts and 2 blocks was uploaded, one chunk being empty
C1_Witness ==
    /\ pc[1] = "returned"
    /\ source[1] = 2 * PartSize + 2
    /\ Len(UploadCalls(1)) = 3
    /\ empties[1] > 0

(***************************************************************************)
(* C2: the part numbers passed to upload_part are 1, 2, 3, ... without gap *)
(* or repeat, a part is issued only after the one before it succeeded, and *)
(* complete_multipart_upload gets one record per uploaded part, ascending, *)
(* each with the ETag the store returned for that part.                    *)
(***************************************************************************)
C2_PartSequence ==
    \A i \in Running :
        LET U == UploadCalls(i)
        IN  /\ \A j \in 1..Len(U) :
                  /\ U[j].arg.PartNumber = j
                  /\ j < Len(U) => U[j].ok
            /\ \A c \in Idx(i, {"complete_multipart_upload"}) :
                  /\ \A j \in 1..Len(U) : U[j].ok
                  /\ Len(calls[i][c].arg) = Len(U)
                  /\ \A j \in 1..Len(U) :
                        calls[i][c].arg[j] = [PartNumber |-> j, ETag |-> U[j].ret.value]

\* complete_multipart_upload was called with three part records
C2_Witness ==
    \E c \in Idx(1, {"complete_multipart_upload"}) :
        calls[1][c].ok /\ Len(calls[1][c].arg) = 3

(***************************************************************************)
(* C3: when the fetch fails after the session was opened (requests.get,    *)
(* raise_for_status or a read of the body), abort_multipart_upload is      *)
(* called for the session before the error reaches the caller.             *)
(***************************************************************************)
C3_AbortOnFetchFailure ==
    \A i \in Running :
        (pc[i] = "raised" /\ FailedIdx(i, {"get", "read"}) # {}
            /\ OkIdx(i, {"create_multipart_upload"}) # {})
        => Aborts(i) # {}

(***************************************************************************)
(* C4: when an upload_part call or complete_multipart_upload fails,        *)
(* abort_multipart_upload is called exactly once, with the bucket, the key *)
(* and the UploadId of this invocation's create_multipart_upload, and the  *)
(* exception of the failed call is the one raised to the caller.           *)
(***************************************************************************)
C4_AbortOnStoreFailure ==
    \A i \in Running :
        \A f \in FailedIdx(i, {"upload_part", "complete_multipart_upload"}) :
            /\ pc[i] \in {"abort", "raised"}
            /\ pc[i] = "abort" => Aborts(i) = {}
            /\ pc[i] = "raised" =>
                  /\ Cardinality(Aborts(i)) = 1
                  /\ \A a \in Aborts(i) : \A c \in Idx(i, {"create_multipart_upload"}) :
                        /\ a > f
                        /\ calls[i][a].bucket = calls[i][c].bucket
                        /\ calls[i][a].key = calls[i][c].key
                        /\ calls[i][a].upload_id = calls[i][c].ret.value
                  /\ raised[i] = calls[i][f].ret

\* the final short part of three failed with a ClientError and the abort
\* was issued
C4_Witness ==
    /\ pc[1] = "raised"
    /\ \E f \in FailedIdx(1, {"upload_part"}) :
          /\ calls[1][f].arg.PartNumber = 3
          /\ Len(calls[1][f].arg.Body) < PartSize
          /\ calls[1][f].ret.cls = "ClientError"
    /\ Aborts(1) # {}

(***************************************************************************)
(* C5: when abort_multipart_upload itself fails, the exception that        *)
(* reaches the caller is still the one that started the cleanup, and the   *)
(* invocation does not return a result.                                    *)
(***************************************************************************)
C5_AbortFailureDoesNotMask ==
    \A i \in Running :
        \A a \in FailedIdx(i, {"abort_multipart_upload"}) :
            /\ pc[i] = "raised"
            /\ result[i] = NoResult
            /\ raised[i] # calls[i][a].ret
            /\ \E f \in FailedIdx(i, {"upload_part", "complete_multipart_upload",
                                       "generate_presigned_url"}) :
                  /\ f < a
                  /\ raised[i] = calls[i][f].ret

\* the abort attempt after a failed complete_multipart_upload failed too
C5_Witness ==
    /\ pc[1] = "raised"
    /\ FailedIdx(1, {"abort_multipart_upload"}) # {}
    /\ FailedIdx(1, {"complete_multipart_upload"}) # {}

(***************************************************************************)
(* C6: make_public requested, the session completed and put_object_acl     *)
(* failed.                                                                 *)
(***************************************************************************)
AclFailed(i) == FailedIdx(i, {"put_object_acl"}) # {}
Done(i) == pc[i] \in {"returned", "raised"}

\* C6 as stated: the invocation then returns a result, calls no
\* abort_multipart_upload, reports public = false and a presigned URL with
\* a 3600 second expiry
C6_AclFailureAlwaysReturns ==
    \A i \in Running :
        AclFailed(i) =>
            /\ Aborts(i) = {}
            /\ pc[i] # "abort"
            /\ Done(i) =>
                  /\ pc[i] = "returned"
                  /\ result[i].public = FALSE
                  /\ result[i].file_url
                        = [kind |-> "presigned", bucket |-> bucket_name[i],
                           key |-> filename[i], ExpiresIn |-> 3600]

\* C6 as amended: when put_object_acl failed and the fallback
\* generate_presigned_url succeeds, the invocation returns a result and calls
\* no abort_multipart_upload; the result's public is false and its file_url
\* is the presigned URL with a 3600 second expiry, not the public-base URL
C6_AclFailureFallback ==
    \A i \in Running :
        (AclFailed(i) /\ OkIdx(i, {"generate_presigned_url"}) # {}) =>
            /\ request[i].make_public
            /\ OkIdx(i, {"complete_multipart_upload"}) # {}
            /\ Aborts(i) = {}
            /\ pc[i] = "returned"
            /\ result[i].public = FALSE
            /\ result[i].file_url
                  = [kind |-> "presigned", bucket |-> bucket_name[i],
                     key |-> filename[i], ExpiresIn |-> 3600]
            /\ result[i].file_url.kind # "public"

\* a result was returned after put_object_acl failed
C6_Witness ==
    /\ pc[1] = "returned"
    /\ AclFailed(1)
    /\ request[1].make_public
    /\ source[1] > PartSize

(***************************************************************************)
(* C7: in every returned result public is true exactly when make_public    *)
(* was requested and put_object_acl succeeded; then file_url is the public *)
(* base, the bucket and the percent-encoded key joined by "/", and no      *)
(* presigned URL was generated; when make_public is false put_object_acl   *)
(* is never called and file_url is a presigned URL with a 3600 s expiry.   *)
(***************************************************************************)
\* the public base of a provider: S3_ENDPOINT_URL, or GCS_PUBLIC_URL_BASE
\* with its default
ExpectedBase(p) ==
    IF p = "s3" THEN env["S3_ENDPOINT_URL"]
    ELSE IF env["GCS_PUBLIC_URL_BASE"] = None THEN GcsDefaultUrl
    ELSE env["GCS_PUBLIC_URL_BASE"]

\* C7: public, file_url and the calls behind them agree in every result
C7_PublicFlagAndUrl ==
    \A i \in Running :
        /\ ~request[i].make_public => Idx(i, {"put_object_acl"}) = {}
        /\ pc[i] = "returned" =>
              /\ result[i].public
                    <=> (request[i].make_public /\ OkIdx(i, {"put_object_acl"}) # {})
              /\ result[i].public =>
                    /\ result[i].file_url.kind = "public"
                    /\ result[i].file_url.text
                          = rstrip_slash(ExpectedBase(provider[i])) \o <<"/">>
                              \o result[i].bucket \o <<"/">> \o quote(result[i].filename)
                    /\ Idx(i, {"generate_presigned_url"}) = {}
              /\ ~request[i].make_public =>
                    result[i].file_url
                        = [kind |-> "presigned", bucket |-> result[i].bucket,
                           key |-> result[i].filename, ExpiresIn |-> 3600]

\* a public result for a key that needs percent-encoding
C7_Witness ==
    /\ pc[1] = "returned"
    /\ result[1].public
    /\ result[1].filename = CustomName
    /\ quote(CustomName) # CustomName

(***************************************************************************)
(* C8: a missing or empty required setting makes the invocation fail with  *)
(* a configuration error before any collaborator call.                     *)
(***************************************************************************)
Prefix(p, name) ==
    IF p = "s3"
    THEN CASE name = "BUCKET_NAME" -> "S3_BUCKET_NAME"
           [] name = "ACCESS_KEY" -> "S3_ACCESS_KEY"
           [] name = "SECRET_KEY" -> "S3_SECRET_KEY"
           [] name = "ENDPOINT_URL" -> "S3_ENDPOINT_URL"
    ELSE CASE name = "BUCKET_NAME" -> "GCS_BUCKET_NAME"
           [] name = "ACCESS_KEY" -> "GCS_ACCESS_KEY"
           [] name = "SECRET_KEY" -> "GCS_SECRET_KEY"
           [] name = "ENDPOINT_URL" -> "GCS_ENDPOINT_URL"

MissingOrEmpty(x) == x = None \/ x = << >>

\* the invocation made no collaborator call and, once it has left its
\* first step, has raised a ValueError
FailedFast(i) ==
    /\ CallsBy(i) = {}
    /\ pc[i] \in {"start", "raised"}
    /\ pc[i] = "raised" => raised[i].cls = "ValueError"

\* C8 as stated: bucket name, access key, secret key and endpoint URL
C8_AnyMissingSettingFailsFast ==
    \A i \in Running :
        (\E name \in {"BUCKET_NAME", "ACCESS_KEY", "SECRET_KEY", "ENDPOINT_URL"} :
            MissingOrEmpty(env[Prefix(provider[i], name)]))
        => FailedFast(i)

\* C8 as amended: a missing or empty bucket name, access key or secret key,
\* an empty endpoint URL, and for s3 a missing endpoint URL, make the
\* invocation fail with a ValueError before any collaborator call (a
\* missing GCS_ENDPOINT_URL is replaced by its default)
C8_MissingSettingFailsFast ==
    \A i \in Running :
        (\/ \E name \in {"BUCKET_NAME", "ACCESS_KEY", "SECRET_KEY"} :
                MissingOrEmpty(env[Prefix(provider[i], name)])
         \/ env[Prefix(provider[i], "ENDPOINT_URL")] = << >>
         \/ provider[i] = "s3" /\ env["S3_ENDPOINT_URL"] = None)
        => FailedFast(i)

\* the s3 invocation raised for a missing secret key
C8_Witness ==
    /\ pc[1] = "raised"
    /\ provider[1] = "s3"
    /\ env["S3_SECRET_KEY"] = None
    /\ raised[1] = [cls |-> "ValueError", op |-> "S3_SECRET_KEY", n |-> 0]
    /\ \A i \in Invocations : calls[i] = << >>

(***************************************************************************)
(* C9: nothing is retried: create_multipart_upload, the GET,               *)
(* complete_multipart_upload and the upload_part of each part number are   *)
(* issued at most once, and after the first failed fetch, upload_part or   *)
(* complete_multipart_upload the invocation reads no more of the source    *)
(* and issues no call but the abort attempt.                               *)
(***************************************************************************)
FailedStage(i) ==
    FailedIdx(i, {"get", "read", "upload_part", "complete_multipart_upload"})

C9_IssuedOnce(i) ==
    /\ Cardinality(Idx(i, {"create_multipart_upload"})) <= 1
    /\ Cardinality(Idx(i, {"get"})) <= 1
    /\ Cardinality(Idx(i, {"complete_multipart_upload"})) <= 1
    /\ \A a, b \in Idx(i, {"upload_part"}) :
          calls[i][a].arg.PartNumber = calls[i][b].arg.PartNumber => a = b
    /\ \A f \in FailedStage(i) : \A m \in (f+1)..Len(calls[i]) :
          calls[i][m].op = "abort_multipart_upload"

C9_NoReadAfterFailure(i) ==
    FailedStage(i) # {} => pos'[i] = pos[i] /\ empties'[i] = empties[i]

\* C9: no call is issued twice, and after a failed fetch, upload_part or
\* complete_multipart_upload nothing is read and only the abort is called
C9_NoRetry ==
    /\ [](\A i \in Running : C9_IssuedOnce(i))
    /\ [][\A i \in Invocations : C9_NoReadAfterFailure(i)]_vars

\* part 2 failed after part 1 was uploaded, and the abort attempt followed
C9_Witness ==
    /\ pc[1] = "raised"
    /\ \E f \in FailedIdx(1, {"upload_part"}) : calls[1][f].arg.PartNumber = 2
    /\ Aborts(1) # {}
    /\ pos[1] < source[1]

(***************************************************************************)
(* C10: a result is returned only after complete_multipart_upload          *)
(* succeeded; a failed configuration check, create_multipart_upload,       *)
(* fetch, upload_part, complete_multipart_upload or generate_presigned_url *)
(* ends the invocation with that error raised; only a failed abort attempt *)
(* and a failed put_object_acl do not surface.                             *)
(***************************************************************************)
Surfacing == {"create_multipart_upload", "get", "read", "upload_part",
              "complete_multipart_upload", "generate_presigned_url"}

\* C10: results only after a completed session; every other failure than
\* a failed abort or put_object_acl is raised to the caller
C10_ErrorsPropagate ==
    \A i \in Running :
        /\ pc[i] = "returned" =>
              /\ OkIdx(i, {"complete_multipart_upload"}) # {}
              /\ result[i] # NoResult
              /\ raised[i] = NoError
              /\ FailedIdx(i, Surfacing \cup {"abort_multipart_upload"}) = {}
        /\ (pc[i] # "start" /\ ConfigFailure(provider[i], env) # "") =>
              /\ pc[i] = "raised"
              /\ raised[i] = [cls |-> "ValueError",
                              op |-> ConfigFailure(provider[i], env), n |-> 0]
        /\ \A f \in FailedIdx(i, Surfacing) :
              /\ pc[i] \in {"abort", "raised"}
              /\ result[i] = NoResult
              /\ pc[i] = "raised" => raised[i] = calls[i][f].ret
        /\ pc[i] = "raised" =>
              /\ raised[i] # NoError
              /\ raised[i].op \notin {"abort_multipart_upload", "put_object_acl"}

\* generate_presigned_url failed in the ACL fallback, the abort attempt
\* failed too, and the error of generate_presigned_url was raised
C10_Witness ==
    /\ pc[1] = "raised"
    /\ AclFailed(1)
    /\ FailedIdx(1, {"abort_multipart_upload"}) # {}
    /\ raised[1].op = "generate_presigned_url"


(***************************************************************************)
(* C11: two concurrent invocations with distinct keys do not interfere.    *)
(***************************************************************************)
\* the locals of invocation i and its position in the source stream
Locals(i) ==
    <<pos[i], empties[i], pc[i], bucket_name[i], public_base[i], filename[i],
      upload_id[i], buffer[i], parts[i], part_number[i], make_public[i], exc[i],
      result[i], raised[i]>>

\* the key invocation i resolves from its own request
OwnKey(i) == ResolveFilename(provider[i], request[i], Unbound)

\* the upload id the store returned to invocation i (Unbound before that)
OwnSession(i) ==
    LET created == OkIdx(i, {"create_multipart_upload"})
    IN  IF created = {} THEN Unbound ELSE calls[i][CHOOSE k \in created : TRUE].ret.value

RECURSIVE Concat(_)
Concat(ss) == IF ss = << >> THEN << >> ELSE Head(ss) \o Concat(Tail(ss))

\* the bodies of the upload_part calls of invocation i, joined in call order
SentBytes(i) ==
    Concat([k \in 1..Len(UploadCalls(i)) |-> UploadCalls(i)[k].arg.Body])

\* the results invocation i can return when it runs alone
ResultsAlone(i) ==
    { UploadResult(provider[i],
                   PublicUrl(PublicBase(provider[i], env), env[BucketVar(provider[i])], OwnKey(i)),
                   OwnKey(i), env[BucketVar(provider[i])], TRUE),
      UploadResult(provider[i],
                   PresignedUrl(env[BucketVar(provider[i])], OwnKey(i), ExpiresIn),
                   OwnKey(i), env[BucketVar(provider[i])], FALSE) }

C11_OwnState ==
    \A i \in Invocations :
        LET key == OwnKey(i)
            session == OwnSession(i)
            sent == SentBytes(i)
            held == Len(buffer[i])
        IN  \* the session id is the one the store gave to this invocation
            /\ upload_id[i] = session
            /\ \A j \in Invocations \ {i} :
                   upload_id[i] # Unbound => upload_id[i] # upload_id[j]
            \* every part, complete and abort call carries its own key and session
            /\ \A k \in Idx(i, {"upload_part", "complete_multipart_upload",
                                  "abort_multipart_upload"}) :
                   /\ calls[i][k].key = key
                   /\ calls[i][k].upload_id = session
                   /\ calls[i][k].upload_id # Unbound
            \* buffer and parts hold bytes of its own source only, in source
            \* order (the final part is sent from the buffer, which keeps them)
            /\ SubSeq(Body(i), 1, pos[i]) \in {sent \o buffer[i], sent}
            /\ held <= pos[i]
            /\ buffer[i] = SubSeq(Body(i), pos[i] - held + 1, pos[i])
            \* part counter and part list count its own successful uploads
            /\ Len(parts[i]) = Cardinality(OkIdx(i, {"upload_part"}))
            /\ part_number[i] \in {Len(parts[i]), Len(parts[i]) + 1}
            /\ \A k \in Idx(i, {"complete_multipart_upload"}) : calls[i][k].arg = parts[i]
            \* the result is the one the invocation returns when it runs alone
            /\ pc[i] = "returned" => result[i] \in ResultsAlone(i)

\* a step of one invocation leaves the locals and the calls of every other
\* one as they were
C11_Frame ==
    \E j \in Invocations :
        \A i \in Invocations \ {j} :
            /\ Locals(i)' = Locals(i)
            /\ calls'[i] = calls[i]

\* C11: when two invocations with distinct keys run concurrently, under every
\* interleaving each one's buffer, part counter, part list and session id are
\* its own, every upload_part, complete and abort call carries its own key and
\* session id, and its calls and result are those of running alone.
C11_NoInterference == [](C11_OwnState) /\ [][C11_Frame]_vars

\* both invocations are between their first part and their completion at the
\* same time, each with a part of its own uploaded
C11_Witness ==
    /\ OwnKey(1) # OwnKey(2)
    /\ pc[1] = "final" /\ pc[2] = "complete"
    /\ OkIdx(1, {"upload_part"}) # {} /\ OkIdx(2, {"upload_part"}) # {}
    /\ upload_id[2] = UploadId(1) /\ upload_id[1] = UploadId(2)


(***************************************************************************)
(* C12: the name is the last path segment, percent-decoded, or the custom  *)
(* name.                                                                   *)
(***************************************************************************)
\* the path of a URL as written: from the first '/' after the authority to
\* the '?' or '#' that ends it
WrittenPath(url) ==
    LET rest == From(url, SchemeLen(url) + 3)
        slash == Find(rest, "/")
        path == IF slash = 0 THEN << >> ELSE From(rest, slash)
        q == Find(path, "?")
        h == Find(path, "#")
        stop == IF q = 0 THEN h ELSE IF h = 0 THEN q ELSE IF q < h THEN q ELSE h
    IN  IF stop = 0 THEN path ELSE UpTo(path, stop - 1)

\* the last segment of the path as written, escapes not decoded
LastSegment(url) ==
    LET path == WrittenPath(url) IN From(path, RFind(path, "/") + 1)

\* with a custom name every store call and the result carry that name
C12_CustomNameVerbatim ==
    \A i \in Running :
        Truthy(request[i].custom_filename) =>
            /\ \A k \in CallsBy(i) :
                   calls[i][k].op # "get" => calls[i][k].key = request[i].custom_filename
            /\ pc[i] = "returned" => result[i].filename = request[i].custom_filename

\* C12: without a custom name, for a URL whose last path segment is not empty
\* (escapes, an escaped slash, a query string included) the resolved name is
\* exactly that segment percent-decoded; a custom name is the key of every
\* store call and the filename of the result.
C12_NameIsLastSegment ==
    /\ \A i \in Running :
          (/\ ~Truthy(request[i].custom_filename)
           /\ filename[i] # Unbound
           /\ LastSegment(request[i].file_url) # << >>)
          => filename[i] = unquote(LastSegment(request[i].file_url))
    /\ C12_CustomNameVerbatim


(***************************************************************************)
(* C13: the session is completed once, after the whole stream was uploaded.*)
(***************************************************************************)
\* C13: complete_multipart_upload is issued at most once per invocation, only
\* after the source was read to its end and every byte read was uploaded in a
\* part (the drained parts and the final part), and no upload_part call
\* follows it.
C13_CompleteAfterAllParts ==
    \A i \in Running :
        /\ Cardinality(Idx(i, {"complete_multipart_upload"})) <= 1
        /\ \A c \in Idx(i, {"complete_multipart_upload"}) :
               /\ pos[i] = source[i]
               /\ SentBytes(i) = Body(i)
               /\ buffer[i] = << >> \/ buffer[i] = UploadCalls(i)[Len(UploadCalls(i))].arg.Body
               /\ \A u \in Idx(i, {"upload_part"}) : u < c /\ calls[i][u].ok

\* the session was completed after a drained part and a final part
C13_Witness ==
    /\ pc[1] = "returned"
    /\ source[1] = PartSize + 2
    /\ Len(UploadCalls(1)) = 2
    /\ \E c \in OkIdx(1, {"complete_multipart_upload"}) : c = Len(calls[1]) - 1


(***************************************************************************)
(* C14: the buffer is below the part size whenever a chunk is requested.   *)
(***************************************************************************)
\* C14: each time the next chunk is requested from the source, and at the end
\* of the stream, the buffer holds fewer than PartSize blocks, whatever the
\* sizes of the chunks delivered (larger than a part, empty); so it never
\* holds more than PartSize - 1 blocks plus one chunk.
C14_BufferBelowPartSize ==
    \A i \in Running :
        /\ pc[i] \in {"read", "final", "complete"} => Len(buffer[i]) < PartSize
        /\ Len(buffer[i]) <= PartSize - 1 + MaxChunk

\* after an empty chunk, a chunk larger than a part arrived on a buffer one
\* block short of a part
C14_Witness ==
    /\ pc[1] = "drain"
    /\ empties[1] > 0
    /\ MaxChunk > PartSize
    /\ Len(buffer[1]) = PartSize - 1 + MaxChunk


(***************************************************************************)
(* C15: one session per invocation, opened before the GET, used by every   *)
(* later store call.                                                       *)
(***************************************************************************)
\* C15: an invocation opens at most one multipart session and opens it before
\* the HTTP GET; every upload_part, complete and abort call uses the bucket,
\* the resolved key and the UploadId of that session; filename and bucket of
\* the result are that key and bucket.
C15_OneSession ==
    \A i \in Running :
        LET created == Idx(i, {"create_multipart_upload"})
        IN  /\ Cardinality(created) <= 1
            /\ \A g \in Idx(i, {"get"}) : \E c \in created : c < g /\ calls[i][c].ok
            /\ \A k \in Idx(i, {"upload_part", "complete_multipart_upload",
                                  "abort_multipart_upload"}) :
                   \E c \in created :
                       /\ c < k /\ calls[i][c].ok
                       /\ calls[i][k].bucket = calls[i][c].bucket
                       /\ calls[i][k].key = calls[i][c].key
                       /\ calls[i][k].upload_id = calls[i][c].ret.value
            /\ \A c \in created :
                   /\ calls[i][c].bucket = env[BucketVar(provider[i])]
                   /\ calls[i][c].key = filename[i]
                   /\ ~DrawsUuid(request[i]) =>
                          calls[i][c].key = ResolveFilename(provider[i], request[i], Unbound)
                   /\ pc[i] = "returned" =>
                          /\ result[i].filename = calls[i][c].key
                          /\ result[i].bucket = calls[i][c].bucket
            /\ pc[i] = "returned" => created # {}

\* a result was returned under a custom name after two parts of one session
C15_Witness ==
    /\ pc[1] = "returned"
    /\ request[1].custom_filename = CustomName
    /\ result[1].filename = CustomName
    /\ Len(UploadCalls(1)) = 2
    /\ \A k \in Idx(1, {"upload_part", "complete_multipart_upload"}) :
          calls[1][k].upload_id = calls[1][1].ret.value /\ calls[1][k].key = CustomName


(***************************************************************************)
(* C16: a URL without a last path segment gets a fresh generated name.     *)
(***************************************************************************)
\* the names uuid4 has produced so far
Generated == {Uuid(n) : n \in 1..uuid_count}

\* C16: without a custom name, a URL whose path has no last segment (empty
\* path, path ending in '/') resolves to a generated identifier that is not
\* empty, differs from the name of every other invocation and has no
\* extension appended; resolving a name never fails and never gives the empty
\* name, for any URL.
C16_FreshName ==
    \A i \in Running :
        \* resolving does not fail: an invocation that raised has issued a call
        /\ pc[i] \in {"abort", "raised"} => CallsBy(i) # {}
        /\ pc[i] \notin {"start", "idle"} =>
               /\ filename[i] # Unbound
               /\ filename[i] # << >>
               /\ (~Truthy(request[i].custom_filename)
                      /\ LastSegment(request[i].file_url) = << >>) =>
                      /\ filename[i] \in Generated
                      /\ \A j \in Running \ {i} : filename[j] # filename[i]

\* both invocations resolved a URL ending in '/', one with a dot in its last
\* directory, under gcs, to two different generated names
C16_Witness ==
    /\ provider[1] = "gcs"
    /\ request[1].file_url = UrlDottedDir
    /\ filename[1] \in Generated /\ filename[2] \in Generated
    /\ filename[1] # filename[2]
    /\ pc[1] = "returned" /\ pc[2] = "returned"


(***************************************************************************)
(* C17: no abort of a session that was completed.                          *)
(***************************************************************************)
\* C17: abort_multipart_upload is never called on a session after
\* complete_multipart_upload succeeded for it; a failure of
\* generate_presigned_url after the commit leads to no abort call.
C17_NoAbortAfterComplete ==
    \A i \in Running :
        \A c \in OkIdx(i, {"complete_multipart_upload"}) :
            \A a \in Aborts(i) : a < c

(***************************************************************************)
(* C18: the list of parts given to complete is not empty.                  *)
(***************************************************************************)
\* C18: whenever complete_multipart_upload is called its list of part records
\* is not empty, for every body, the body of zero bytes included.
C18_PartsNonEmpty ==
    \A i \in Running :
        \A c \in Idx(i, {"complete_multipart_upload"}) : calls[i][c].arg # << >>

(***************************************************************************)
(* C19: the parts, joined in order, are the source.                        *)
(***************************************************************************)
\* C19: when an invocation returns a result, the bodies of the uploaded parts
\* joined in the order of their part numbers are exactly the bytes of the
\* source, for every split of the source into chunks.
C19_PartsAreTheSource ==
    \A i \in Running :
        pc[i] = "returned" =>
            LET U == UploadCalls(i)
            IN  /\ \A k \in 1..Len(U) : U[k].ok /\ U[k].arg.PartNumber = k
                /\ Len(parts[i]) = Len(U)
                /\ Concat([k \in 1..Len(U) |-> U[k].arg.Body]) = Body(i)

\* a result was returned for a body of two parts and a remainder that arrived
\* in more than three chunks, one of them empty
C19_Witness ==
    /\ pc[1] = "returned"
    /\ source[1] = 2 * PartSize + 2
    /\ Len(UploadCalls(1)) = 3
    /\ empties[1] > 0

(***************************************************************************)
(* C20: every invocation ends.                                             *)
(***************************************************************************)
\* each pass of the while loop takes exactly PartSize blocks off the buffer
C20_DrainStep ==
    \A i \in Running :
        (pc[i] = "drain" /\ calls'[i] # calls[i]) =>
            /\ Len(buffer[i]) >= PartSize
            /\ Len(buffer'[i]) = Len(buffer[i]) - PartSize

\* C20: for a finite source whose collaborator calls each return or raise,
\* the invocation ends with a returned result or a raised error; each pass of
\* the drain loop removes exactly PartSize blocks, and the except clauses
\* issue at most one abort_multipart_upload call.
C20_Terminates ==
    /\ \A i \in Invocations :
          pc[i] # "idle" ~> pc[i] \in {"returned", "raised"}
    /\ [](\A i \in Running : Cardinality(Aborts(i)) <= 1)
    /\ [][C20_DrainStep]_vars

\* an invocation ended with an error after two passes of the drain loop and
\* one abort call
C20_Witness ==
    /\ pc[1] = "raised"
    /\ Cardinality(OkIdx(1, {"upload_part"})) = 2
    /\ Cardinality(Aborts(1)) = 1
    /\ buffer[1] = << >>


(***************************************************************************)
(* C21: a failed create_multipart_upload ends the invocation at once.      *)
(***************************************************************************)
\* C21: when create_multipart_upload fails there is no UploadId, so no abort,
\* no HTTP GET, no upload_part and no complete call is issued, and the error
\* of the create call is raised to the caller as it is.
C21_CreateFailureRaisedAtOnce ==
    \A i \in Running :
        \A f \in FailedIdx(i, {"create_multipart_upload"}) :
            /\ upload_id[i] = Unbound
            /\ Idx(i, {"abort_multipart_upload", "get", "read", "upload_part",
                       "complete_multipart_upload", "put_object_acl",
                       "generate_presigned_url"}) = {}
            /\ Len(calls[i]) = f
            /\ pc[i] = "raised"
            /\ raised[i] = calls[i][f].ret
            /\ raised[i].op = "create_multipart_upload"
            /\ result[i] = NoResult

\* create_multipart_upload raised a Boto3Error under gcs and the caller got it
C21_Witness ==
    /\ provider[1] = "gcs"
    /\ pc[1] = "raised"
    /\ raised[1] = Error("Boto3Error", "create_multipart_upload", 0)
    /\ FailedIdx(1, {"create_multipart_upload"}) = {1}

====
